---- MODULE Spec2Model ----
(***************************************************************************)
(* The multilinear algebra library of multilinear.py: M3System/M3Element   *)
(* (dimension 3) and M4System/M4Element (dimension 4).  A session creates  *)
(* one system instance, constructs an element bound to it and applies the  *)
(* operators to it; __pow__ is followed iteration by iteration.            *)
(***************************************************************************)
EXTENDS Integers, Sequences, FiniteSets, TLC

VARIABLES
  sys,        \* the system instance of the session (NoneObj before it is made)
  a,          \* the element the operators are applied to: self (NoneObj before)
  out,        \* the last finished operation: its operand, argument and outcome
  pc,         \* "idle", or "loop" inside the while loop of __pow__
  base,       \* __pow__: local base
  result,     \* __pow__: local result
  exponent,   \* __pow__: local exponent (the remaining exponent)
  k,          \* __pow__: the exponent the call was given
  iters,      \* __pow__: iterations of the while loop so far
  squares,    \* __pow__: executions of base = base * base so far
  accmuls     \* __pow__: executions of result = result * base so far

vars == <<sys, a, out, pc, base, result, exponent, k, iters, squares, accmuls>>

(* ------------------------------ bounds --------------------------------- *)

\* moduli 2..MaxModulus are the valid ones a session may choose
MaxModulus == 3
\* exponents up to MaxExp are passed to __pow__
MaxExp == 20

\* the moduli handed to the system constructors: the valid ones and -1, 0, 1
ModulusInputs == (0 - 1)..MaxModulus

\* raw components handed to the element constructor for self
RawVals == (0 - MaxModulus)..MaxModulus

\* raw components handed to the element constructor for the other operand
OperandVals == {0 - 1, 0, 1}

(* ------------------------------ values --------------------------------- *)

NoneObj == [cls |-> "NoneType"]
NotImplemented == [cls |-> "NotImplemented"]
ValueError == [cls |-> "ValueError"]
TypeError == [cls |-> "TypeError"]
ZeroDivisionError == [cls |-> "ZeroDivisionError"]

IsElement(v) == v.cls \in {"M3Element", "M4Element"}
IsSystem(v) == v.cls \in {"M3System", "M4System"}

\* a remainder with the sign of the dividend (C's %), in place of Python's
PyModTruncated(x, m) ==
  LET n == IF m > 0 THEN m ELSE 0 - m
  IN IF x >= 0 THEN x % n ELSE 0 - ((0 - x) % n)

\* Python's x % m on integers: the result has the sign of m
PyMod(x, m) == IF m > 0 THEN x % m ELSE 0 - ((0 - x) % (0 - m))

\* exponent -= 1 in place of exponent //= 2
Decrement(x) == x - 1

\* Python's x // 2 for x >= 0
FloorDiv2(x) == x \div 2

\* [f(x) % modulus for x in value]
ReduceAll(value, modulus) == [i \in 1..Len(value) |-> PyMod(value[i], modulus)]

(* ------------------------------ systems -------------------------------- *)

\* M3System.__init__: the arguments are stored as given; id is the object identity
M3System(id, A, B, C, D, E, modulus) ==
  [cls |-> "M3System", id |-> id, A |-> A, B |-> B, C |-> C, D |-> D, E |-> E,
   modulus |-> modulus]

\* M4System.__init__
M4System(id, A, B, C, D, E, F, G, H, I, modulus) ==
  [cls |-> "M4System", id |-> id, A |-> A, B |-> B, C |-> C, D |-> D, E |-> E,
   F |-> F, G |-> G, H |-> H, I |-> I, modulus |-> modulus]

\* systems compared by their constants and modulus, in place of by identity
SystemsDifferByValue(s, t) == [s EXCEPT !.id = 0] # [t EXCEPT !.id = 0]

\* self.system != other.system: no __eq__ is defined, so objects compare by identity
SystemsDiffer(s, t) == s.id # t.id

(* ------------------------------ elements ------------------------------- *)

\* M3Element.__init__
M3Element(value, system) ==
  IF Len(value) # 3 THEN ValueError
  ELSE IF system.cls # "M3System" THEN TypeError
  ELSE IF system.modulus = 0 THEN ZeroDivisionError
  ELSE [cls |-> "M3Element", system |-> system,
        value |-> ReduceAll(value, system.modulus)]

\* M4Element.__init__ storing the value as given, without the reduction
M4ElementUnreduced(value, system) ==
  IF Len(value) # 4 THEN ValueError
  ELSE IF system.cls # "M4System" THEN TypeError
  ELSE IF system.modulus = 0 THEN ZeroDivisionError
  ELSE [cls |-> "M4Element", system |-> system, value |-> value]

\* M4Element.__init__
M4Element(value, system) ==
  IF Len(value) # 4 THEN ValueError
  ELSE IF system.cls # "M4System" THEN TypeError
  ELSE IF system.modulus = 0 THEN ZeroDivisionError
  ELSE [cls |-> "M4Element", system |-> system,
        value |-> ReduceAll(value, system.modulus)]

\* zip(self.value, other.value) under a componentwise f, reduced mod the modulus
ZipMod(u, v, sign, modulus) ==
  [i \in 1..Len(u) |-> PyMod(u[i] + sign * v[i], modulus)]

\* M3Element.__add__
M3Add(self, other) ==
  IF other.cls # "M3Element" THEN NotImplemented
  ELSE IF SystemsDiffer(self.system, other.system) THEN NotImplemented
  ELSE M3Element(ZipMod(self.value, other.value, 1, self.system.modulus), self.system)

\* M3Element.__sub__ with the operands of the difference exchanged: y - x
M3SubReversed(self, other) ==
  IF other.cls # "M3Element" THEN NotImplemented
  ELSE IF SystemsDiffer(self.system, other.system) THEN NotImplemented
  ELSE M3Element(ZipMod(other.value, self.value, 0 - 1, self.system.modulus), self.system)

\* M3Element.__sub__
M3Sub(self, other) ==
  IF other.cls # "M3Element" THEN NotImplemented
  ELSE IF SystemsDiffer(self.system, other.system) THEN NotImplemented
  ELSE M3Element(ZipMod(self.value, other.value, 0 - 1, self.system.modulus), self.system)

\* M3Element.__neg__
M3Neg(self) ==
  M3Element([i \in 1..3 |-> PyMod(0 - self.value[i], self.system.modulus)], self.system)

\* M3Element.__mul__ with A + a1 * b1 written for A * a1 * b1
M3MulTypo(self, other) ==
  IF other.cls # "M3Element" THEN NotImplemented
  ELSE IF SystemsDiffer(self.system, other.system) THEN NotImplemented
  ELSE
    LET a0 == self.value[1]
        a1 == self.value[2]
        a2 == self.value[3]
        b0 == other.value[1]
        b1 == other.value[2]
        b2 == other.value[3]
        A == self.system.A
        B == self.system.B
        C == self.system.C
        D == self.system.D
        E == self.system.E
        N == self.system.modulus
        r0 == PyMod(a0 + b0 + a0 * b0 + A + a1 * b1 + C * a2 * b1 + B * a2 * b2, N)
        r1 == PyMod(a1 + b1 + a1 * b0 + a0 * b1 + D * a1 * b1 + E * a1 * b2, N)
        r2 == PyMod(a2 + b2 + a2 * b0 + a0 * b2 + D * a2 * b1 + E * a2 * b2, N)
    IN M3Element(<<r0, r1, r2>>, self.system)

\* M3Element.__mul__
M3Mul(self, other) ==
  IF other.cls # "M3Element" THEN NotImplemented
  ELSE IF SystemsDiffer(self.system, other.system) THEN NotImplemented
  ELSE
    LET a0 == self.value[1]
        a1 == self.value[2]
        a2 == self.value[3]
        b0 == other.value[1]
        b1 == other.value[2]
        b2 == other.value[3]
        A == self.system.A
        B == self.system.B
        C == self.system.C
        D == self.system.D
        E == self.system.E
        N == self.system.modulus
        r0 == PyMod(a0 + b0 + a0 * b0 + A * a1 * b1 + C * a2 * b1 + B * a2 * b2, N)
        r1 == PyMod(a1 + b1 + a1 * b0 + a0 * b1 + D * a1 * b1 + E * a1 * b2, N)
        r2 == PyMod(a2 + b2 + a2 * b0 + a0 * b2 + D * a2 * b1 + E * a2 * b2, N)
    IN M3Element(<<r0, r1, r2>>, self.system)

\* M4Element.__add__
M4Add(self, other) ==
  IF other.cls # "M4Element" THEN NotImplemented
  ELSE IF SystemsDiffer(self.system, other.system) THEN NotImplemented
  ELSE M4Element(ZipMod(self.value, other.value, 1, self.system.modulus), self.system)

\* M4Element.__sub__
M4Sub(self, other) ==
  IF other.cls # "M4Element" THEN NotImplemented
  ELSE IF SystemsDiffer(self.system, other.system) THEN NotImplemented
  ELSE M4Element(ZipMod(self.value, other.value, 0 - 1, self.system.modulus), self.system)

\* M4Element.__neg__
M4Neg(self) ==
  M4Element([i \in 1..4 |-> PyMod(0 - self.value[i], self.system.modulus)], self.system)

\* M4Element.__mul__ with the terms weighted by the structure constants left out
M4MulNoConstants(self, other) ==
  IF other.cls # "M4Element" THEN NotImplemented
  ELSE IF SystemsDiffer(self.system, other.system) THEN NotImplemented
  ELSE
    LET N == self.system.modulus
        r0 == PyMod(self.value[1] + other.value[1] + self.value[1] * other.value[1], N)
        rest(i) == PyMod(self.value[i] + other.value[i] + self.value[i] * other.value[1]
                         + self.value[1] * other.value[i], N)
    IN M4Element(<<r0, rest(2), rest(3), rest(4)>>, self.system)

\* M4Element.__mul__
M4Mul(self, other) ==
  IF other.cls # "M4Element" THEN NotImplemented
  ELSE IF SystemsDiffer(self.system, other.system) THEN NotImplemented
  ELSE
    LET a0 == self.value[1]
        a1 == self.value[2]
        a2 == self.value[3]
        a3 == self.value[4]
        b0 == other.value[1]
        b1 == other.value[2]
        b2 == other.value[3]
        b3 == other.value[4]
        A == self.system.A
        B == self.system.B
        C == self.system.C
        D == self.system.D
        E == self.system.E
        F == self.system.F
        G == self.system.G
        H == self.system.H
        I == self.system.I
        N == self.system.modulus
        r0 == PyMod(a0 + b0 + a0 * b0 + A * a1 * b1 + E * a3 * b1
                    + B * a2 * b2 + D * a1 * b2 + F * a3 * b2 + C * a3 * b3, N)
        r1 == PyMod(a1 + b1 + a1 * b0 + a0 * b1 + G * a1 * b1 + H * a1 * b2 + I * a1 * b3, N)
        r2 == PyMod(a2 + b2 + a2 * b0 + a0 * b2 + G * a2 * b1 + H * a2 * b2 + I * a2 * b3, N)
        r3 == PyMod(a3 + b3 + a3 * b0 + a0 * b3 + G * a3 * b1 + H * a3 * b2 + I * a3 * b3, N)
    IN M4Element(<<r0, r1, r2, r3>>, self.system)

(* ------------------- the operators, by the class of self ---------------- *)

Dim(self) == IF self.cls \in {"M3Element", "M3System"} THEN 3 ELSE 4

\* Element(value, system) of the class that goes with the system
MakeElementOf(value, system) ==
  IF system.cls = "M3System" THEN M3Element(value, system) ELSE M4Element(value, system)

\* self + other, self - other, self * other: Python calls the method of self; a
\* NotImplemented return (the reflected method does not exist) raises TypeError
BinaryOperator(ret) == IF ret.cls = "NotImplemented" THEN TypeError ELSE ret

Add(self, other) ==
  BinaryOperator(IF self.cls = "M3Element" THEN M3Add(self, other) ELSE M4Add(self, other))

Sub(self, other) ==
  BinaryOperator(IF self.cls = "M3Element" THEN M3Sub(self, other) ELSE M4Sub(self, other))

Neg(self) == IF self.cls = "M3Element" THEN M3Neg(self) ELSE M4Neg(self)

Mul(self, other) ==
  BinaryOperator(IF self.cls = "M3Element" THEN M3Mul(self, other) ELSE M4Mul(self, other))

(* ------------------------------ __pow__ -------------------------------- *)

\* the exponents a caller can pass: ints, bools (a subclass of int), floats, strings
IntObj(n) == [type |-> "int", val |-> n]
Exponents ==
  {IntObj(n) : n \in (0 - 2)..MaxExp}
    \cup {[type |-> "bool", val |-> n] : n \in {0, 1}}
    \cup {[type |-> "float", val |-> n] : n \in {0 - 1, 2}}
    \cup {[type |-> "str", val |-> 0]}

\* the check without its second half: not isinstance(exponent, int)
ExponentRejectedTypeOnly(e) == e.type \notin {"int", "bool"}

\* not isinstance(exponent, int) or exponent < 0
ExponentRejected(e) == e.type \notin {"int", "bool"} \/ e.val < 0

\* identity_element = M3Element([0, 0, 0], self.system)
IdentityElement(self) == MakeElementOf([i \in 1..Dim(self) |-> 0], self.system)

\* the loop body with the squaring moved before the multiplication
PowBodySquareFirst(st) ==
  [result   |-> IF st.exponent % 2 = 1
                THEN Mul(st.result, Mul(st.base, st.base)) ELSE st.result,
   base     |-> Mul(st.base, st.base),
   exponent |-> FloorDiv2(st.exponent)]

\* one iteration of the while loop, on the locals <<result, base, exponent>>
PowBody(st) ==
  [result   |-> IF st.exponent % 2 = 1 THEN Mul(st.result, st.base) ELSE st.result,
   base     |-> Mul(st.base, st.base),
   exponent |-> FloorDiv2(st.exponent)]

\* while exponent > 0: ...; return result
RECURSIVE PowLoop(_)
PowLoop(st) == IF st.exponent > 0 THEN PowLoop(PowBody(st)) ELSE st.result

\* self ** e, from the call to the return
Pow(self, e) ==
  IF ExponentRejected(e) THEN ValueError
  ELSE IF e.val = 0 THEN IdentityElement(self)
  ELSE PowLoop([result |-> IdentityElement(self), base |-> self, exponent |-> e.val])

(* ------------------------------ inputs --------------------------------- *)

\* structure constants <<A, B, C, D, E>> of the dimension-3 systems a session may
\* make: all zero, all one, each constant alone, a table with constants above the
\* moduli and one with negative constants
ConstTables3 ==
  {[i \in 1..5 |-> 0], [i \in 1..5 |-> 1]}
    \cup {[i \in 1..5 |-> IF i = j THEN 1 ELSE 0] : j \in 1..5}
    \cup {<<1, 2, 3, 1, 2>>, <<0 - 1, 4, 0 - 2, 3, 0 - 5>>}

\* structure constants <<A, ..., I>> of the dimension-4 systems a session may make
ConstTables4 ==
  {[i \in 1..9 |-> 1], [i \in 1..9 |-> i], <<0 - 1, 0, 2, 0, 0 - 3, 1, 0, 5, 0 - 2>>}

\* raw value sequences of lengths 3 and 4 (one of them has the wrong length)
RawVectors == [1..3 -> RawVals] \cup [1..4 -> RawVals]

\* a second system instance: another object, with the same or other constants
OtherInstances(s) ==
  {[s EXCEPT !.id = 2], [s EXCEPT !.id = 2, !.A = s.A + s.modulus],
   [s EXCEPT !.id = 2, !.B = s.B + 1]}

\* the elements passed as the other operand: bound to the session's system, or the
\* session's element and the zero vector rebound to a second instance, or an
\* element of the other dimension
Operands(self) ==
  {MakeElementOf(v, self.system) : v \in [1..Dim(self) -> OperandVals]}
    \cup {[self EXCEPT !.system = t] : t \in OtherInstances(self.system)}
    \cup {[cls |-> IF self.cls = "M3Element" THEN "M4Element" ELSE "M3Element",
           system |-> self.system, value |-> self.value]}

(* ------------------------------ actions -------------------------------- *)

Done(op, other, e, res) == [op |-> op, other |-> other, k |-> e, res |-> res]

NoArg == IntObj(0)

\* nothing finished yet, or the caller has dropped the last outcome
NoOutcome == Done("none", NoneObj, NoArg, NoneObj)

\* the locals and counters of __pow__ outside a call
PowIdle ==
  /\ base' = NoneObj
  /\ result' = NoneObj
  /\ exponent' = 0
  /\ k' = NoArg
  /\ iters' = 0
  /\ squares' = 0
  /\ accmuls' = 0

Init ==
  /\ sys = NoneObj
  /\ a = NoneObj
  /\ out = NoOutcome
  /\ pc = "idle"
  /\ base = NoneObj
  /\ result = NoneObj
  /\ exponent = 0
  /\ k = NoArg
  /\ iters = 0
  /\ squares = 0
  /\ accmuls = 0

powvars == <<base, result, exponent, k, iters, squares, accmuls>>

\* the caller is between two operations and holds no outcome
Ready == pc = "idle" /\ IsElement(a) /\ out = NoOutcome

MakeM3System ==
  /\ sys = NoneObj
  /\ \E t \in ConstTables3, modulus \in ModulusInputs :
       sys' = M3System(1, t[1], t[2], t[3], t[4], t[5], modulus)
  /\ UNCHANGED <<a, out, pc, powvars>>

MakeM4System ==
  /\ sys = NoneObj
  /\ \E t \in ConstTables4, modulus \in ModulusInputs :
       sys' = M4System(1, t[1], t[2], t[3], t[4], t[5], t[6], t[7], t[8], t[9], modulus)
  /\ UNCHANGED <<a, out, pc, powvars>>

\* Element(value, system): the first element of the session
MakeElement ==
  /\ IsSystem(sys) /\ a = NoneObj /\ out = NoOutcome
  /\ \E value \in RawVectors, system \in {sys, NoneObj} :
       LET e == MakeElementOf(value, system)
       IN IF IsElement(e)
          THEN a' = e /\ out' = out
          ELSE a' = a /\ out' = Done("new", NoneObj, NoArg, e)
  /\ UNCHANGED <<sys, pc, powvars>>

DoAdd ==
  /\ Ready
  /\ \E other \in Operands(a) : out' = Done("add", other, NoArg, Add(a, other))
  /\ UNCHANGED <<sys, a, pc, powvars>>

DoSub ==
  /\ Ready
  /\ \E other \in Operands(a) : out' = Done("sub", other, NoArg, Sub(a, other))
  /\ UNCHANGED <<sys, a, pc, powvars>>

DoNeg ==
  /\ Ready
  /\ out' = Done("neg", NoneObj, NoArg, Neg(a))
  /\ UNCHANGED <<sys, a, pc, powvars>>

DoMul ==
  /\ Ready
  /\ \E other \in Operands(a) : out' = Done("mul", other, NoArg, Mul(a, other))
  /\ UNCHANGED <<sys, a, pc, powvars>>

\* self ** e up to the while loop
PowCall ==
  /\ Ready
  /\ \E e \in Exponents :
       /\ k' = e
       /\ iters' = 0 /\ squares' = 0 /\ accmuls' = 0
       /\ IF ExponentRejected(e)
          THEN /\ out' = Done("pow", NoneObj, e, ValueError)
               /\ UNCHANGED <<pc, base, result, exponent>>
          ELSE IF e.val = 0
          THEN /\ out' = Done("pow", NoneObj, e, IdentityElement(a))
               /\ UNCHANGED <<pc, base, result, exponent>>
          ELSE /\ pc' = "loop"
               /\ base' = a
               /\ result' = IdentityElement(a)
               /\ exponent' = e.val
               /\ out' = out
  /\ UNCHANGED <<sys, a>>

\* one iteration of the while loop
PowIter ==
  /\ pc = "loop" /\ exponent > 0
  /\ LET st == PowBody([result |-> result, base |-> base, exponent |-> exponent])
     IN /\ result' = st.result
        /\ base' = st.base
        /\ exponent' = st.exponent
  /\ iters' = iters + 1
  /\ squares' = squares + 1
  /\ accmuls' = IF exponent % 2 = 1 THEN accmuls + 1 ELSE accmuls
  /\ UNCHANGED <<sys, a, out, pc, k>>

\* the loop condition fails: return result; the locals go with the frame
PowReturn ==
  /\ pc = "loop" /\ exponent = 0
  /\ out' = Done("pow", NoneObj, k, result)
  /\ pc' = "idle"
  /\ base' = NoneObj
  /\ result' = NoneObj
  /\ UNCHANGED <<sys, a, exponent, k, iters, squares, accmuls>>

\* the caller goes on with the element an operation returned
Reuse ==
  /\ pc = "idle" /\ IsElement(a) /\ IsElement(out.res)
  /\ a' = out.res
  /\ out' = NoOutcome
  /\ PowIdle
  /\ UNCHANGED <<sys, pc>>

\* the caller drops the outcome (an element or an error) and keeps self
Discard ==
  /\ pc = "idle" /\ IsElement(a) /\ out # NoOutcome
  /\ out' = NoOutcome
  /\ PowIdle
  /\ UNCHANGED <<sys, a, pc>>

Next ==
  \/ MakeM3System
  \/ MakeM4System
  \/ MakeElement
  \/ DoAdd
  \/ DoSub
  \/ DoNeg
  \/ DoMul
  \/ PowCall
  \/ PowIter
  \/ PowReturn
  \/ Reuse
  \/ Discard

Spec == Init /\ [][Next]_vars

(* ------------------------------ claims --------------------------------- *)

IsZero(el) == \A i \in 1..Len(el.value) : el.value[i] = 0

NonZeroConstants(s) ==
  /\ s.A # 0 /\ s.B # 0 /\ s.C # 0 /\ s.D # 0 /\ s.E # 0
  /\ s.cls = "M4System" => (s.F # 0 /\ s.G # 0 /\ s.H # 0 /\ s.I # 0)

\* an element of a system with modulus N >= 2 has Dim components, each in [0, N)
Reduced(el) ==
  (IsElement(el) /\ el.system.modulus >= 2) =>
     /\ Len(el.value) = Dim(el)
     /\ \A i \in 1..Len(el.value) : 0 <= el.value[i] /\ el.value[i] < el.system.modulus

\* C1: under a modulus N >= 2 every element that exists (the constructed one, the
\* outcome of add, subtract, negate, multiply and power, and the locals of the power
\* loop) has exactly n components, each v with 0 <= v < N.
C1_ReductionInvariant ==
  Reduced(a) /\ Reduced(out.res) /\ Reduced(base) /\ Reduced(result)

\* a product under negative structure constants, in a system of modulus >= 2
C1_Witness ==
  /\ out.op = "mul" /\ IsElement(out.res)
  /\ sys.modulus = 3 /\ sys.A < 0
  /\ ~IsZero(a) /\ ~IsZero(out.other) /\ out.res.value[1] = 2

\* the naive reference: acc_0 = the all-zero vector, acc_(j+1) = acc_j * self
RECURSIVE NaivePow(_, _)
NaivePow(self, n) ==
  IF n = 0 THEN MakeElementOf([i \in 1..Dim(self) |-> 0], self.system)
  ELSE Mul(NaivePow(self, n - 1), self)

\* C2: for every exponent 0 <= n <= MaxExp the element returned by self ** n is the
\* one n sequential left-multiplications by self give from the all-zero vector.
C2_SquaringConsistency ==
  (out.op = "pow" /\ out.k.type \in {"int", "bool"} /\ out.k.val \in 0..MaxExp) =>
     /\ IsElement(out.res)
     /\ out.res = NaivePow(a, out.k.val)

\* a 13th power in dimension 4 under non-zero constants that is not the zero vector
C2_Witness ==
  /\ out.op = "pow" /\ out.k = IntObj(13)
  /\ a.cls = "M4Element" /\ NonZeroConstants(sys) /\ sys.modulus = 3
  /\ IsElement(out.res) /\ ~IsZero(out.res) /\ out.res # a

\* C3: under a modulus N >= 2 the all-zero vector e is a two-sided identity of the
\* multiplication: a * e = a and e * a = a, for the element of the session and for
\* every product the session has computed with a zero operand.
C3_ZeroIsIdentity ==
  (IsElement(a) /\ a.system.modulus >= 2) =>
     /\ Mul(a, IdentityElement(a)) = a
     /\ Mul(IdentityElement(a), a) = a
     /\ (out.op = "mul" /\ IsElement(out.res) /\ IsZero(out.other)) => out.res = a
     /\ (out.op = "mul" /\ IsElement(out.res) /\ IsZero(a)) =>
          out.res.value = out.other.value

\* e * b for a non-zero b, in dimension 3 under non-zero constants
C3_Witness ==
  /\ out.op = "mul" /\ IsElement(out.res)
  /\ a.cls = "M3Element" /\ NonZeroConstants(sys) /\ sys.modulus = 3
  /\ IsZero(a) /\ ~IsZero(out.other) /\ out.res.value = out.other.value

\* C4: add, subtract and multiply of two elements bound to two distinct system
\* instances return no element: the operation fails with the mismatch error.
C4_SystemMismatch ==
  (/\ out.op \in {"add", "sub", "mul"}
   /\ a.cls = out.other.cls
   /\ a.system.id # out.other.system.id) =>
     /\ ~IsElement(out.res)
     /\ out.res = TypeError

\* a product refused although the other instance has the same constants and modulus
C4_Witness ==
  /\ out.op = "mul" /\ a.cls = out.other.cls
  /\ out.other.system.id = 2
  /\ [out.other.system EXCEPT !.id = 1] = a.system
  /\ out.res = TypeError

\* C5: every system that exists has an integer modulus >= 2, so every element is
\* bound to such a system.
C5_ModulusValidated ==
  /\ IsSystem(sys) => sys.modulus >= 2
  /\ IsElement(a) => a.system.modulus >= 2

\* C6: a + b = b + a, a + (-a) is the all-zero vector, and a - b = a + (-b).
C6_AdditiveGroupLaws ==
  /\ (out.op = "add" /\ IsElement(out.res)) => out.res = Add(out.other, a)
  /\ (out.op = "neg" /\ IsElement(out.res)) =>
        (IsElement(Add(a, out.res)) /\ IsZero(Add(a, out.res)))
  /\ (out.op = "sub" /\ IsElement(out.res)) => out.res = Add(a, Neg(out.other))

\* a difference in dimension 3 modulo 3 that is not the sum
C6_Witness ==
  /\ out.op = "sub" /\ IsElement(out.res)
  /\ a.cls = "M3Element" /\ sys.modulus = 3
  /\ out.res # Add(a, out.other) /\ out.res = Add(a, Neg(out.other))

\* C7: self ** e with e negative or not an integer fails with the exponent error
\* before any multiplication and returns no element; the loop is never entered
\* with such an exponent; with an integer e >= 0 the call does not fail.
C7_InvalidExponent ==
  /\ (out.op = "pow" /\ (out.k.type \in {"float", "str"} \/ out.k.val < 0)) =>
        /\ out.res = ValueError
        /\ iters = 0 /\ squares = 0 /\ accmuls = 0
  /\ (out.op = "pow" /\ out.k.type = "int" /\ out.k.val >= 0) => IsElement(out.res)
  /\ pc = "loop" => (k.type \in {"int", "bool"} /\ k.val >= 0)

\* a negative integer exponent was refused
C7_Witness ==
  /\ out.op = "pow" /\ out.k = IntObj(0 - 1)
  /\ out.res = ValueError /\ squares = 0 /\ accmuls = 0

\* the reduced vectors of dimension n modulo N
ReducedVectors(n, N) == [1..n -> 0..(N - 1)]

\* some two distinct elements of the system s do not commute
HasNonCommutingPair(s) ==
  \E u, v \in ReducedVectors(Dim(s), s.modulus) :
     /\ u # v
     /\ Mul(MakeElementOf(u, s), MakeElementOf(v, s))
          # Mul(MakeElementOf(v, s), MakeElementOf(u, s))

\* C8: in dimension 3 and in dimension 4 there are a system with non-zero structure
\* constants and two elements u # v of it with u * v # v * u: such systems are among
\* those a session can make, and every system with non-zero constants and modulus
\* N >= 2 that a session has made has such a pair.
C8_NonCommutative ==
  /\ sys = NoneObj =>
       /\ \E t \in ConstTables3, N \in 2..MaxModulus :
            LET s == M3System(1, t[1], t[2], t[3], t[4], t[5], N)
            IN NonZeroConstants(s) /\ HasNonCommutingPair(s)
       /\ \E t \in ConstTables4, N \in 2..MaxModulus :
            LET s == M4System(1, t[1], t[2], t[3], t[4], t[5], t[6], t[7], t[8], t[9], N)
            IN NonZeroConstants(s) /\ HasNonCommutingPair(s)
  /\ (IsSystem(sys) /\ a = NoneObj /\ out = NoOutcome
        /\ NonZeroConstants(sys) /\ sys.modulus >= 2) => HasNonCommutingPair(sys)

\* a computed product in dimension 4 that differs from the product in the other order
C8_Witness ==
  /\ out.op = "mul" /\ IsElement(out.res)
  /\ a.cls = "M4Element" /\ NonZeroConstants(sys) /\ sys.modulus >= 2
  /\ a # out.other
  /\ out.res # Mul(out.other, a)

\* the system s with its constants c replaced by c + d[i] * modulus
ShiftConstants(s, d) ==
  LET N == s.modulus
  IN IF s.cls = "M3System"
     THEN M3System(s.id, s.A + d[1] * N, s.B + d[2] * N, s.C + d[3] * N,
                   s.D + d[4] * N, s.E + d[5] * N, N)
     ELSE M4System(s.id, s.A + d[1] * N, s.B + d[2] * N, s.C + d[3] * N,
                   s.D + d[4] * N, s.E + d[5] * N, s.F + d[6] * N, s.G + d[7] * N,
                   s.H + d[8] * N, s.I + d[9] * N, N)

\* the system s with its constants c replaced by c mod modulus
ReduceConstants(s) ==
  LET N == s.modulus
      r(c) == IF N > 0 THEN c % N ELSE 0 - ((0 - c) % (0 - N))
  IN IF s.cls = "M3System"
     THEN M3System(s.id, r(s.A), r(s.B), r(s.C), r(s.D), r(s.E), N)
     ELSE M4System(s.id, r(s.A), r(s.B), r(s.C), r(s.D), r(s.E), r(s.F), r(s.G),
                   r(s.H), r(s.I), N)

\* systems with the modulus of s and constants congruent to those of s
Congruent(s) ==
  {ReduceConstants(s)} \cup
  {ShiftConstants(s, d) :
     d \in {[i \in 1..9 |-> 1], [i \in 1..9 |-> 0 - 1],
            <<1, 0 - 1, 2, 0, 0 - 2, 3, 0 - 1, 0, 1>>}}

Rebind(el, t) == [el EXCEPT !.system = t]

\* C9: a product or a power computed in the session's system has the same value
\* vector in every system with the same modulus and congruent structure constants
\* (the constants reduced mod N, or moved by multiples of N, also below zero).
C9_CongruentConstants ==
  (/\ out.op \in {"mul", "pow"}
   /\ IsElement(out.res)) =>
     \A t \in Congruent(a.system) :
        LET r == IF out.op = "mul" THEN Mul(Rebind(a, t), Rebind(out.other, t))
                 ELSE Pow(Rebind(a, t), out.k)
        IN IsElement(r) /\ r.value = out.res.value

\* a 5th power under unreduced constants, some of them negative
C9_Witness ==
  /\ out.op = "pow" /\ out.k = IntObj(5) /\ IsElement(out.res)
  /\ sys.modulus = 3 /\ sys.A < 0 /\ sys.B > 3
  /\ ReduceConstants(sys) # sys
  /\ ~IsZero(out.res)

\* floor(log2 n) + 1 for n >= 1, and 0 for n = 0
RECURSIVE BitLength(_)
BitLength(n) == IF n = 0 THEN 0 ELSE 1 + BitLength(n \div 2)

\* the number of 1-bits of n
RECURSIVE PopCount(_)
PopCount(n) == IF n = 0 THEN 0 ELSE (n % 2) + PopCount(n \div 2)

RECURSIVE Pow2(_)
Pow2(n) == IF n = 0 THEN 1 ELSE 2 * Pow2(n - 1)

\* C10: inside the loop the base has been squared once per iteration, the remaining
\* exponent is the given one halved once per iteration, the accumulator has been
\* multiplied once per 1-bit consumed, and the loop goes on exactly while fewer than
\* floor(log2 k) + 1 iterations are done; self ** k for k >= 1 returns with the
\* remaining exponent 0 after floor(log2 k) + 1 iterations and as many accumulator
\* multiplications as k has 1-bits; for k = 0 nothing is multiplied.
C10_PowerLoopSteps ==
  /\ pc = "loop" =>
        /\ k.val >= 1
        /\ squares = iters
        /\ iters <= BitLength(k.val)
        /\ exponent = k.val \div Pow2(iters)
        /\ accmuls = PopCount(k.val % Pow2(iters))
        /\ (exponent > 0) <=> (iters < BitLength(k.val))
  /\ (out.op = "pow" /\ IsElement(out.res) /\ out.k.val >= 1) =>
        /\ exponent = 0
        /\ iters = BitLength(out.k.val)
        /\ squares = iters
        /\ accmuls = PopCount(out.k.val)
  /\ (out.op = "pow" /\ IsElement(out.res) /\ out.k.val = 0) =>
        (iters = 0 /\ squares = 0 /\ accmuls = 0)

\* self ** 13 has returned after 4 iterations and 3 accumulator multiplications
C10_Witness ==
  /\ out.op = "pow" /\ out.k = IntObj(13) /\ IsElement(out.res)
  /\ pc = "idle" /\ exponent = 0
  /\ iters = 4 /\ squares = 4 /\ accmuls = 3

====
